---- MODULE Spec2Model ----
(***************************************************************************)
(* Model of the GoAngent log-correlation agent: the batch preprocessor     *)
(* (ParseLogs, MinePatterns, CreateBundle, Process), the rotation-safe     *)
(* tailer (tailFile), the stream handlers (streamIngestHandler,            *)
(* streamLiveHandler) and the stream manager they call.                    *)
(*                                                                         *)
(* Go strings that the code compares, concatenates or searches are         *)
(* modelled as tuples (timestamps: tuples of digits, services and messages *)
(* tuples of one-character strings); strings that are only compared with   *)
(* literals (levels) are TLA+ strings.  A nil pointer is <<>>, a non-nil   *)
(* pointer to x is <<x>>.                                                  *)
(***************************************************************************)
EXTENDS Integers, Sequences, FiniteSets, TLC

VARIABLES
    \* ---- batch preprocessor (ParseLogs, MinePatterns, CreateBundle, Process) ----
    bfCall,     \* the call being made: [op, logs, raw]
    bfOut,      \* <<>> while the call is pending, <<[ret, nows]>> once it returned
    \* ---- free-text lines (parseLine, formatLogLine) ----
    lnCall,     \* the call being made: [op, line, service]
    lnOut,      \* <<>> while the call is pending, <<result>> once it returned
    \* ---- the tailed file and its writer (the environment of tailFile) ----
    file,       \* the bytes of the file at path: a line id (>= 1) or 0 for '\n'
    nextLine,   \* the id of the next line the writer appends
    truncs,     \* how many times the file has been truncated
    \* ---- tailFile ----
    tailPc,     \* where tailFile is: "entry", "select", "stat", "read", "sleep", "done"
    handles,    \* every handle os.Open has returned: "open" or "closed"
    curFile,    \* the variable file: an index of handles, 0 for nil
    deferFile,  \* the receiver the defer statement captured
    offset,     \* the read position of curFile
    rdBuf,      \* the bytes bufio.Reader has read ahead
    lastSize,   \* the variable lastSize
    delivered,  \* the lines passed to onLog, in order
    cancelled,  \* ctx.Done() is closed
    tailRet,    \* "none", or what tailFile returned: "nil" or "err"
    observed,   \* the size the last file.Stat() reported, -1 before the first
    startAt,    \* the size of the file when tailFile sought to its end
    shrinkSeen, \* a Stat since the last truncation reported less than the one before
    \* ---- stream manager: the window buffer (stream_manager.go) ----
    smBuffer,   \* the buffered records, in arrival order
    smMu,       \* the holder of the buffer's mutex, 0 when free
    smLastFlush,\* the time of the last flush
    clock,      \* the clock
    \* ---- streamIngestHandler requests and the tailers they start ----
    pc,         \* where each handler and each tailer goroutine is
    hLeft,      \* per handler: lines of the initial read still to ingest
    tLeft,      \* per tailer: lines the tailed file will still yield
    snap,       \* per handler: the snapshot its running Flush has taken
    flushed,    \* the record sequences Flush calls have returned, in order
    acceptedRecs, \* the records for which Ingest returned true
    nextRec,    \* the id of the next record offered to Ingest
    lastCheck,  \* <<>>, or <<[answer, at, calls]>>: what ShouldFlush last answered,
                \* when, and in how many calls, if no Ingest or Flush has run since
    \* ---- stream manager: the broadcast hub (stream_manager.go) ----
    subs,       \* the registered subscriber channels (one per client)
    chans,      \* per channel: the bundles queued in it
    regMu,      \* the holder of the registry's mutex, 0 when free
    pubPc,      \* the publisher: "idle", or "send" inside Publish
    pubTodo,    \* the subscribers Publish has still to try
    pubNext,    \* the bundle being published, or the next one
    targeted,   \* <<c, b>>: c was subscribed when Publish(b) began
    dropped,    \* <<c, b>>: Publish(b) found c's channel full
    \* ---- streamLiveHandler requests ----
    cPc,        \* per client: "idle", "wait", "unsub", "done"
    ctxDone,    \* per client: r.Context().Done() is closed
    received    \* per client: the bundles written to its response

bfVars   == <<bfCall, bfOut>>
lineVars == <<lnCall, lnOut>>
fileVars == <<file, nextLine, truncs>>
tailVars == <<tailPc, handles, curFile, deferFile, offset, rdBuf, lastSize,
              delivered, cancelled, tailRet, observed, shrinkSeen, startAt>>

bufVars  == <<smBuffer, smMu, smLastFlush, clock, pc, hLeft, tLeft, snap, flushed,
              acceptedRecs, nextRec, lastCheck>>

hubVars  == <<subs, chans, regMu, pubPc, pubTodo, pubNext, targeted, dropped,
              cPc, ctxDone, received>>

vars == <<bfVars, lineVars, fileVars, tailVars, bufVars, hubVars>>

(***************************************************************************)
(* Bounds of the model.                                                    *)
(***************************************************************************)
MaxLogs == 3        \* longest record sequence given to CreateBundle
MaxRaw == 2         \* longest raw entry collection given to Process
MaxMine == 3        \* longest record sequence given to MinePatterns
MaxInit == 1        \* most lines in the file when tailing starts
MaxLines == 3       \* most lines the writer appends while tailFile runs
MaxTruncs == 1      \* most truncations of the file
MaxBatch == 1       \* most lines a request ingests from its initial read
MaxTailed == 1      \* most lines a request's tailer ingests
MaxClock == 2       \* how far the clock runs
MaxBundles == 2     \* how many bundles are published
MaxWords == 2       \* most words a free-text line is made of
MaxEntries == 3     \* longest raw entry collection given to ParseLogs

(***************************************************************************)
(* Sequences helpers.                                                      *)
(***************************************************************************)
Range(s) == {s[i] : i \in DOMAIN s}

\* All orders in which the elements of a finite set can be enumerated
\* (Go's iteration order over a map is unspecified).
Orders(S) == {s \in [1..Cardinality(S) -> S] : Range(s) = S}

\* The permutations of 1..n.
Perms(n) == {p \in [1..n -> 1..n] : Range(p) = 1..n}

(***************************************************************************)
(* Go string comparison (operator < on strings: byte-wise lexicographic).  *)
(***************************************************************************)
RECURSIVE StrLess(_, _)
StrLess(a, b) ==
    IF b = <<>> THEN FALSE
    ELSE IF a = <<>> THEN TRUE
    ELSE IF Head(a) # Head(b) THEN Head(a) < Head(b)
    ELSE StrLess(Tail(a), Tail(b))

\* strings.ToLower on the characters the inputs use.
LowerChar(c) ==
    CASE c = "T" -> "t"
      [] c = "O" -> "o"
      [] OTHER   -> c

ToLower(s) == [i \in DOMAIN s |-> LowerChar(s[i])]

\* strings.Contains(s, sub)
Contains(s, sub) ==
    \E i \in 0..(Len(s) - Len(sub)) :
        \A j \in 1..Len(sub) : s[i + j] = sub[j]

\* strings.Join(msgs, " ")
RECURSIVE Join(_)
Join(msgs) ==
    IF msgs = <<>> THEN <<>>
    ELSE IF Len(msgs) = 1 THEN msgs[1]
    ELSE msgs[1] \o <<" ">> \o Join(Tail(msgs))

(***************************************************************************)
(* Input universes.                                                        *)
(***************************************************************************)
\* Timestamps: "12" sorts before "2" as a string although 12 > 2.
Timestamps == {<<1, 2>>, <<2>>}

SvcA == <<"a">>
SvcB == <<"b">>
Unknown == <<"u", "n", "k", "n", "o", "w", "n">>

MsgDb      == <<"d", "b">>
MsgTimeout == <<"T", "i", "m", "e", "O", "u", "t">>
KwTimeout  == <<"t", "i", "m", "e", "o", "u", "t">>
KwMessages == <<"m", "e", "s", "s", "a", "g", "e", "s">>

\* RawLogGo
RawLogGo(ts, lvl, svc, pod, msg, ec) ==
    [Timestamp |-> ts, Level |-> lvl, Service |-> svc, Pod |-> pod,
     Message |-> msg, ErrorClass |-> ec]

LogUniverse ==
    {RawLogGo(ts, lvl, svc, <<>>, MsgDb, <<>>) :
        ts \in Timestamps, lvl \in {"INFO", "ERROR", "FATAL"}, svc \in {SvcA, SvcB}}
    \cup {RawLogGo(<<2>>, "CRITICAL", SvcA, <<>>, MsgTimeout, <<>>),
          RawLogGo(<<1, 2>>, "INFO", SvcB, <<>>, MsgTimeout, <<>>)}

MineUniverse ==
    {RawLogGo(ts, "INFO", SvcA, <<>>, msg, ec) :
        ts \in Timestamps \cup {<<1>>}, msg \in {MsgDb, MsgTimeout},
        ec \in {<<>>, <<"E1">>}}


(***************************************************************************)
(* Raw entries: map[string]interface{} decoded from JSON.  A value is      *)
(* absent, a string, or of another JSON type.                              *)
(***************************************************************************)
Absent(zero) == [k |-> "absent", s |-> zero]
Other(zero)  == [k |-> "other",  s |-> zero]
Str(v)       == [k |-> "string", s |-> v]

\* v, ok := entry[key].(string): the zero value and false unless a string
AsString(x, zero) ==
    IF x.k = "string" THEN [v |-> x.s, ok |-> TRUE] ELSE [v |-> zero, ok |-> FALSE]

RawEntry(ts, lvl, svc, msg) ==
    [timestamp |-> ts, level |-> lvl, service |-> svc, pod |-> Absent(<<>>),
     message |-> msg, errorClass |-> Absent(<<>>)]

RawUniverse ==
    {RawEntry(Str(<<1, 2>>), Str("ERROR"), Str(SvcA), Str(MsgDb)),
     RawEntry(Str(<<1, 2>>), Str("ERROR"), Str(SvcB), Str(MsgDb)),
     RawEntry(Str(<<2>>), Str("INFO"), Str(SvcA), Str(MsgDb)),
     RawEntry(Str(<<2>>), Str("ERROR"), Str(SvcB), Str(MsgTimeout)),
     RawEntry(Absent(<<>>), Absent(""), Absent(<<>>), Absent(<<>>)),
     RawEntry(Str(<<>>), Str(""), Str(<<>>), Str(MsgTimeout)),
     RawEntry(Other(<<>>), Str("FATAL"), Other(<<>>), Str(MsgDb)),
     RawEntry(Str(<<2>>), Other(""), Str(SvcB), Other(<<>>))}

\* time.Now().UTC().Format(time.RFC3339): fixed width, so string order is
\* time order; successive calls never go back.
Nows == {<<2, 1>>, <<2, 2>>}

NowSeqs(n) ==
    {c \in [1..n -> Nows] : \A i, j \in 1..n : i < j => ~StrLess(c[j], c[i])}

(***************************************************************************)
(* LogParserGo.ParseLogs                                                   *)
(***************************************************************************)
\* ParseEntry without the v != "" tests: an empty string is kept.
ParseEntryKeepEmpty(entry, now) ==
    LET ts  == AsString(entry.timestamp, <<>>)
        lvl == AsString(entry.level, "")
        svc == AsString(entry.service, <<>>)
        pod == AsString(entry.pod, <<>>)
        msg == AsString(entry.message, <<>>)
        ec  == AsString(entry.errorClass, <<>>)
    IN  RawLogGo(IF ts.ok THEN ts.v ELSE now,
                 IF lvl.ok THEN lvl.v ELSE "INFO",
                 IF svc.ok THEN svc.v ELSE Unknown,
                 IF pod.ok THEN <<pod.v>> ELSE <<>>,
                 IF msg.ok THEN msg.v ELSE <<>>,
                 IF ec.ok THEN <<ec.v>> ELSE <<>>)

\* The body of the loop over rawData: one RawLogGo per entry.
ParseEntry(entry, now) ==
    LET ts  == AsString(entry.timestamp, <<>>)
        lvl == AsString(entry.level, "")
        svc == AsString(entry.service, <<>>)
        pod == AsString(entry.pod, <<>>)
        msg == AsString(entry.message, <<>>)
        ec  == AsString(entry.errorClass, <<>>)
    IN  RawLogGo(IF ts.ok /\ ts.v # <<>> THEN ts.v ELSE now,
                 IF lvl.ok /\ lvl.v # "" THEN lvl.v ELSE "INFO",
                 IF svc.ok /\ svc.v # <<>> THEN svc.v ELSE Unknown,
                 IF pod.ok THEN <<pod.v>> ELSE <<>>,
                 IF msg.ok THEN msg.v ELSE <<>>,
                 IF ec.ok THEN <<ec.v>> ELSE <<>>)

\* sort.Slice(parsedLogs, less by Timestamp): sorted, and "not guaranteed to
\* be stable", so every sorted permutation is a possible outcome.
SortSlice(s) ==
    {[i \in DOMAIN s |-> s[p[i]]] :
        p \in {q \in Perms(Len(s)) :
                 \A i, j \in 1..Len(s) :
                     i < j => ~StrLess(s[q[j]].Timestamp, s[q[i]].Timestamp)}}

\* The loop over rawData, where nows[i] is the clock reading taken for
\* entry i: parsedLogs before it is sorted.
ParseLoop(rawData, nows) ==
    [i \in 1..Len(rawData.items) |-> ParseEntry(rawData.items[i], nows[i])]

\* The possible returns [logs, err] of ParseLogs(rawData).
ParseLogs(rawData, nows) ==
    IF rawData.isNil
    THEN {[logs |-> <<>>, err |-> TRUE]}
    ELSE {[logs |-> l, err |-> FALSE] : l \in SortSlice(ParseLoop(rawData, nows))}

(***************************************************************************)
(* LogPatternMinerGo.MinePatterns                                          *)
(***************************************************************************)
\* MineLoop with the comparison that guards FirstOccurrence turned round.
RECURSIVE MineLoopFirstSwapped(_, _)
MineLoopFirstSwapped(logs, patternMap) ==
    IF logs = <<>> THEN patternMap
    ELSE LET log == Head(logs)
             key == log.Message
             p0  == IF key \in DOMAIN patternMap
                    THEN patternMap[key]
                    ELSE [Pattern |-> key, Count |-> 0,
                          FirstOccurrence |-> log.Timestamp,
                          LastOccurrence |-> log.Timestamp,
                          ErrorClass |-> log.ErrorClass]
             p1  == [p0 EXCEPT !.Count = @ + 1]
             p2  == IF StrLess(p1.FirstOccurrence, log.Timestamp)
                    THEN [p1 EXCEPT !.FirstOccurrence = log.Timestamp] ELSE p1
             p3  == IF StrLess(p2.LastOccurrence, log.Timestamp)
                    THEN [p2 EXCEPT !.LastOccurrence = log.Timestamp] ELSE p2
         IN  MineLoopFirstSwapped(Tail(logs),
                      [k \in DOMAIN patternMap \cup {key} |->
                          IF k = key THEN p3 ELSE patternMap[k]])

\* MineLoop with the count of a message set to one instead of incremented.
RECURSIVE MineLoopCountOnce(_, _)
MineLoopCountOnce(logs, patternMap) ==
    IF logs = <<>> THEN patternMap
    ELSE LET log == Head(logs)
             key == log.Message
             p0  == IF key \in DOMAIN patternMap
                    THEN patternMap[key]
                    ELSE [Pattern |-> key, Count |-> 0,
                          FirstOccurrence |-> log.Timestamp,
                          LastOccurrence |-> log.Timestamp,
                          ErrorClass |-> log.ErrorClass]
             p1  == [p0 EXCEPT !.Count = 1]
             p2  == IF StrLess(log.Timestamp, p1.FirstOccurrence)
                    THEN [p1 EXCEPT !.FirstOccurrence = log.Timestamp] ELSE p1
             p3  == IF StrLess(p2.LastOccurrence, log.Timestamp)
                    THEN [p2 EXCEPT !.LastOccurrence = log.Timestamp] ELSE p2
         IN  MineLoopCountOnce(Tail(logs),
                      [k \in DOMAIN patternMap \cup {key} |->
                          IF k = key THEN p3 ELSE patternMap[k]])

\* The loop over logs, filling patternMap (a function from message to
\* LogPatternGo).
RECURSIVE MineLoop(_, _)
MineLoop(logs, patternMap) ==
    IF logs = <<>> THEN patternMap
    ELSE LET log == Head(logs)
             key == log.Message
             p0  == IF key \in DOMAIN patternMap
                    THEN patternMap[key]
                    ELSE [Pattern |-> key, Count |-> 0,
                          FirstOccurrence |-> log.Timestamp,
                          LastOccurrence |-> log.Timestamp,
                          ErrorClass |-> log.ErrorClass]
             p1  == [p0 EXCEPT !.Count = @ + 1]
             p2  == IF StrLess(log.Timestamp, p1.FirstOccurrence)
                    THEN [p1 EXCEPT !.FirstOccurrence = log.Timestamp] ELSE p1
             p3  == IF StrLess(p2.LastOccurrence, log.Timestamp)
                    THEN [p2 EXCEPT !.LastOccurrence = log.Timestamp] ELSE p2
         IN  MineLoop(Tail(logs),
                      [k \in DOMAIN patternMap \cup {key} |->
                          IF k = key THEN p3 ELSE patternMap[k]])

EmptyMap == [k \in {} |-> <<>>]

\* The possible returns of MinePatterns(logs): the values of patternMap in
\* any iteration order.
MinePatterns(logs) ==
    LET patternMap == MineLoop(logs, EmptyMap)
    IN  {[i \in DOMAIN o |-> patternMap[o[i]]] : o \in Orders(DOMAIN patternMap)}

(***************************************************************************)
(* BundleFactoryGo.CreateBundle                                            *)
(***************************************************************************)
Min(S) == CHOOSE x \in S : \A y \in S : x <= y

ErrorLevels == {"ERROR", "FATAL", "CRITICAL"}

\* RootServiceOf looking for FATAL and CRITICAL only.
RootServiceOfFatal(logs) ==
    LET hits == {i \in DOMAIN logs : logs[i].Level \in {"FATAL", "CRITICAL"}}
    IN  IF hits = {} THEN <<>> ELSE <<logs[Min(hits)].Service>>

\* the loop that finds rootService: the first log with an error level
RootServiceOf(logs) ==
    LET hits == {i \in DOMAIN logs : logs[i].Level \in ErrorLevels}
    IN  IF hits = {} THEN <<>> ELSE <<logs[Min(hits)].Service>>

SequenceOf(logs) ==
    [i \in DOMAIN logs |->
        [Timestamp |-> logs[i].Timestamp, Type |-> "log",
         Message |-> <<"[">> \o logs[i].Service \o <<"]", " ">> \o logs[i].Message,
         SequenceIndex |-> i - 1]]

\* MetricsOf with errorRateZ raised by every error level.
MetricsOfAnyError(logs) ==
    LET fullText == ToLower(Join([i \in DOMAIN logs |-> logs[i].Message]))
    IN  [ErrorRateZ |-> IF \E i \in DOMAIN logs : logs[i].Level \in ErrorLevels THEN 5 ELSE 0,
         LatencyZ   |-> IF Contains(fullText, KwTimeout) \/ Contains(fullText, KwMessages)
                        THEN 3 ELSE 0]

MetricsOf(logs) ==
    LET fullText == ToLower(Join([i \in DOMAIN logs |-> logs[i].Message]))
    IN  [ErrorRateZ |-> IF \E i \in DOMAIN logs : logs[i].Level = "ERROR" THEN 5 ELSE 0,
         LatencyZ   |-> IF Contains(fullText, KwTimeout) \/ Contains(fullText, KwMessages)
                        THEN 3 ELSE 0]

HintOf(rootService) ==
    IF rootService # <<>>
    THEN <<"Issue detected in ">> \o rootService[1]
    ELSE <<"Unknown issue">>

\* CreateBundle with the emptiness check lost: an empty bundle, no error.
CreateBundleUnchecked(logs, patterns) ==
    {[bundle |-> <<[WindowStart |-> IF logs = <<>> THEN <<>> ELSE logs[1].Timestamp,
                    WindowEnd |-> IF logs = <<>> THEN <<>> ELSE logs[Len(logs)].Timestamp,
                    RootService |-> RootServiceOf(logs),
                    AffectedServices |-> affectedServices,
                    LogPatterns |-> patterns,
                    Events |-> <<>>,
                    Metrics |-> MetricsOf(logs),
                    DependencyGraph |-> affectedServices,
                    Sequence |-> SequenceOf(logs),
                    DerivedRootCauseHint |-> HintOf(RootServiceOf(logs))]>>,
      err |-> FALSE] :
        affectedServices \in Orders({logs[i].Service : i \in DOMAIN logs})}

\* CreateBundle with affectedServices appended per record, not per map key.
CreateBundleServicePerRecord(logs, patterns) ==
    IF Len(logs) = 0
    THEN {[bundle |-> <<>>, err |-> TRUE]}
    ELSE LET rootService == RootServiceOf(logs)
             affectedServices == [i \in DOMAIN logs |-> logs[i].Service]
         IN  {[bundle |-> <<[WindowStart |-> logs[1].Timestamp,
                             WindowEnd |-> logs[Len(logs)].Timestamp,
                             RootService |-> rootService,
                             AffectedServices |-> affectedServices,
                             LogPatterns |-> patterns,
                             Events |-> <<>>,
                             Metrics |-> MetricsOf(logs),
                             DependencyGraph |-> affectedServices,
                             Sequence |-> SequenceOf(logs),
                             DerivedRootCauseHint |-> HintOf(rootService)]>>,
               err |-> FALSE]}

\* The possible returns [bundle, err] of CreateBundle(logs, patterns): the
\* keys of affectedServicesMap come in any iteration order.
CreateBundle(logs, patterns) ==
    IF Len(logs) = 0
    THEN {[bundle |-> <<>>, err |-> TRUE]}
    ELSE LET rootService == RootServiceOf(logs)
         IN  {[bundle |-> <<[WindowStart |-> logs[1].Timestamp,
                             WindowEnd |-> logs[Len(logs)].Timestamp,
                             RootService |-> rootService,
                             AffectedServices |-> affectedServices,
                             LogPatterns |-> patterns,
                             Events |-> <<>>,
                             Metrics |-> MetricsOf(logs),
                             DependencyGraph |-> affectedServices,
                             Sequence |-> SequenceOf(logs),
                             DerivedRootCauseHint |-> HintOf(rootService)]>>,
               err |-> FALSE] :
                 affectedServices \in Orders({logs[i].Service : i \in DOMAIN logs})}

(***************************************************************************)
(* LogPreprocessorFullGo.Process                                           *)
(***************************************************************************)
Process(rawData, nows) ==
    UNION {IF parsed.err
           THEN {[bundle |-> <<>>, err |-> TRUE]}
           ELSE UNION {CreateBundle(parsed.logs, patterns) :
                          patterns \in MinePatterns(parsed.logs)} :
             parsed \in ParseLogs(rawData, nows)}


(***************************************************************************)
(* The batch preprocessor as a state machine: one call per behaviour, its  *)
(* input drawn by Init, its return chosen among the possible returns.      *)
(***************************************************************************)
\* rawData as a nil slice (JSON null)
NoRaw == [isNil |-> TRUE, items |-> <<>>]

\* a direct call of CreateBundle, with the patterns mined from the same logs
CallCreateBundle ==
    /\ bfCall.op = "CreateBundle"
    /\ bfOut = <<>>
    /\ \E patterns \in MinePatterns(bfCall.logs) :
          \E r \in CreateBundle(bfCall.logs, patterns) :
             bfOut' = <<[ret |-> r, nows |-> <<>>]>>
    /\ UNCHANGED <<bfCall, lineVars, fileVars, tailVars, bufVars, hubVars>>

\* preprocessHandler's call of Process
CallProcess ==
    /\ bfCall.op = "Process"
    /\ bfOut = <<>>
    /\ \E nows \in NowSeqs(Len(bfCall.raw.items)) :
          \E r \in Process(bfCall.raw, nows) :
             bfOut' = <<[ret |-> r, nows |-> nows]>>
    /\ UNCHANGED <<bfCall, lineVars, fileVars, tailVars, bufVars, hubVars>>

\* a direct call of ParseLogs
CallParseLogs ==
    /\ bfCall.op = "ParseLogs"
    /\ bfOut = <<>>
    /\ \E nows \in NowSeqs(Len(bfCall.raw.items)) :
          \E r \in ParseLogs(bfCall.raw, nows) :
             bfOut' = <<[ret |-> r, nows |-> nows]>>
    /\ UNCHANGED <<bfCall, lineVars, fileVars, tailVars, bufVars, hubVars>>

CallMinePatterns ==
    /\ bfCall.op = "MinePatterns"
    /\ bfOut = <<>>
    /\ \E ps \in MinePatterns(bfCall.logs) :
          bfOut' = <<[ret |-> ps, nows |-> <<>>]>>
    /\ UNCHANGED <<bfCall, lineVars, fileVars, tailVars, bufVars, hubVars>>

(***************************************************************************)
(* Free-text lines: parseLine (package main of the agent) and              *)
(* formatLogLine (main.go).  A line is a tuple of one-character strings.   *)
(***************************************************************************)
Digits == {"0", "1", "2", "3", "4", "5", "6", "7", "8", "9"}

Letters ==
    {"A", "B", "D", "E", "F", "G", "I", "N", "O", "R", "U", "W",
     "a", "f", "g", "k", "o", "t"}

\* \w of a regular expression
WordChars == Digits \cup Letters \cup {"_"}

\* \s of a regular expression, and what strings.TrimSpace removes
Spaces == {" "}

\* the literal tokens the level is searched by
TokenOf ==
    [ERROR |-> <<"E", "R", "R", "O", "R">>,
     WARN  |-> <<"W", "A", "R", "N">>,
     INFO  |-> <<"I", "N", "F", "O">>,
     DEBUG |-> <<"D", "E", "B", "U", "G">>]

\* the words lines are made of: the four tokens, a plain word between
\* spaces, a date and time, and a Java stack frame
LineWords ==
    {TokenOf["ERROR"], TokenOf["WARN"], TokenOf["INFO"], TokenOf["DEBUG"],
     <<" ", "o", "k", " ">>,
     <<"2", "0", "2", "4", "-", "0", "1", "-", "0", "2", " ",
       "1", "0", ":", "0", "0", ":", "0", "0", " ">>,
     <<"a", "t", " ", "f", "(", "g", ":", "1", ")">>}

\* the words of ws one after the other
RECURSIVE Concat(_)
Concat(ws) == IF ws = <<>> THEN <<>> ELSE Head(ws) \o Concat(Tail(ws))

\* strings.TrimSpace
RECURSIVE TrimSpace(_)
TrimSpace(s) ==
    IF s = <<>> THEN s
    ELSE IF Head(s) \in Spaces THEN TrimSpace(Tail(s))
    ELSE IF s[Len(s)] \in Spaces THEN TrimSpace(SubSeq(s, 1, Len(s) - 1))
    ELSE s

\* every character of s from position a to position b is in class
AllIn(s, a, b, class) == \A i \in a..b : s[i] \in class

\* ^\d{4}-\d{2}-\d{2} matches at the start of line
DatePrefix(line) ==
    /\ Len(line) >= 10
    /\ AllIn(line, 1, 4, Digits) /\ line[5] = "-"
    /\ AllIn(line, 6, 7, Digits) /\ line[8] = "-"
    /\ AllIn(line, 9, 10, Digits)

\* timeRegex of the agent: ReplaceAllString(line, "")
StripDate(line) ==
    IF DatePrefix(line) THEN SubSeq(line, 11, Len(line)) ELSE line

\* timeRegex of main.go: ^\d{4}-\d{2}-\d{2}[ T]\d{2}:\d{2}:\d{2}
TimeRegexMatch(line) ==
    /\ DatePrefix(line)
    /\ Len(line) >= 19
    /\ line[11] \in {" ", "T"}
    /\ AllIn(line, 12, 13, Digits) /\ line[14] = ":"
    /\ AllIn(line, 15, 16, Digits) /\ line[17] = ":"
    /\ AllIn(line, 18, 19, Digits)

\* javaStackLine: ^\s*at\s+[\w.$_]+\(.*:\d+\)$
JavaStackLineMatch(line) ==
    LET n == Len(line)
    IN  \E a, b, c, d \in 0..n :
           /\ AllIn(line, 1, a, Spaces)
           /\ a + 2 < b /\ b < c /\ c + 1 < d /\ d + 1 < n
           /\ line[a + 1] = "a" /\ line[a + 2] = "t"
           /\ AllIn(line, a + 3, b, Spaces)
           /\ AllIn(line, b + 1, c, WordChars \cup {".", "$"})
           /\ line[c + 1] = "("
           /\ line[d] = ":"
           /\ AllIn(line, d + 1, n - 1, Digits)
           /\ line[n] = ")"

\* the first of levels whose token line contains, "" when there is none
RECURSIVE FirstContained(_, _)
FirstContained(line, levels) ==
    IF levels = <<>> THEN ""
    ELSE IF Contains(line, TokenOf[Head(levels)]) THEN Head(levels)
    ELSE FirstContained(line, Tail(levels))

\* parseLine(line, service): the LogOutput, stamped with the clock reading
ParseLine(line, service, now) ==
    LET found == FirstContained(line, <<"ERROR", "WARN", "DEBUG">>)
    IN  [Timestamp |-> now,
         Level     |-> IF found = "" THEN "INFO" ELSE found,
         Service   |-> service,
         Message   |-> TrimSpace(StripDate(line))]

\* formatLogLine(line): the map it returns, an absent key being <<>>
FormatLogLine(line) ==
    LET found == FirstContained(line, <<"ERROR", "WARN", "INFO", "DEBUG">>)
    IN  [raw      |-> line,
         type     |-> IF JavaStackLineMatch(line) THEN <<"stacktrace_line">>
                      ELSE IF TimeRegexMatch(line) THEN <<"timestamped">>
                      ELSE <<>>,
         severity |-> IF found = "" THEN <<>> ELSE <<found>>]

CallParseLine ==
    /\ lnCall.op = "parseLine"
    /\ lnOut = <<>>
    /\ \E now \in Nows :
          lnOut' = <<ParseLine(lnCall.line, lnCall.service, now)>>
    /\ UNCHANGED <<bfVars, lnCall, fileVars, tailVars, bufVars, hubVars>>

CallFormatLogLine ==
    /\ lnCall.op = "formatLogLine"
    /\ lnOut = <<>>
    /\ lnOut' = <<FormatLogLine(lnCall.line)>>
    /\ UNCHANGED <<bfVars, lnCall, fileVars, tailVars, bufVars, hubVars>>

(***************************************************************************)
(* The tailed file.  Every line is one content byte (the line's id) and a  *)
(* newline, so a file of n lines has 2n bytes.                             *)
(***************************************************************************)
LineBytes(id) == <<id, 0>>

RECURSIVE InitialFile(_)
InitialFile(n) == IF n = 0 THEN <<>> ELSE InitialFile(n - 1) \o LineBytes(n)

\* the ids of the complete lines in a sequence of bytes
LinesIn(bytes) ==
    {bytes[i] : i \in {j \in DOMAIN bytes : bytes[j] # 0 /\ j < Len(bytes) /\ bytes[j + 1] = 0}}

\* the file ends inside a line: its last byte is not a newline
MidLine == file # <<>> /\ file[Len(file)] # 0

\* the writer appends one whole line
WriteLine ==
    /\ tailPc # "done"
    /\ ~MidLine
    /\ nextLine <= MaxInit + MaxLines
    /\ file' = file \o LineBytes(nextLine)
    /\ nextLine' = nextLine + 1
    /\ UNCHANGED <<truncs, bfVars, lineVars, bufVars, hubVars, tailVars>>

\* the writer appends the first part of a line: its content, no newline yet
WritePart ==
    /\ tailPc # "done"
    /\ ~MidLine
    /\ nextLine <= MaxInit + MaxLines
    /\ file' = file \o <<nextLine>>
    /\ nextLine' = nextLine + 1
    /\ UNCHANGED <<truncs, bfVars, lineVars, bufVars, hubVars, tailVars>>

\* the writer appends the rest of the line: the newline
WriteRest ==
    /\ tailPc # "done"
    /\ MidLine
    /\ file' = file \o <<0>>
    /\ UNCHANGED <<nextLine, truncs, bfVars, lineVars, bufVars, hubVars, tailVars>>

\* the file is truncated in place (copytruncate rotation)
Truncate ==
    /\ tailPc \notin {"entry", "done"}
    /\ truncs < MaxTruncs
    /\ file # <<>>
    /\ file' = <<>>
    /\ truncs' = truncs + 1
    /\ shrinkSeen' = FALSE
    /\ UNCHANGED <<nextLine, bfVars, lineVars, bufVars, hubVars, tailPc, handles, curFile, deferFile, offset,
                   rdBuf, lastSize, delivered, cancelled, tailRet, observed, startAt>>

\* the request's context is cancelled
Cancel ==
    /\ tailPc \notin {"entry", "done"}
    /\ ~cancelled
    /\ cancelled' = TRUE
    /\ UNCHANGED <<bfVars, lineVars, bufVars, hubVars, fileVars, tailPc, handles, curFile, deferFile, offset,
                   rdBuf, lastSize, delivered, tailRet, observed, shrinkSeen, startAt>>

(***************************************************************************)
(* tailFile                                                                *)
(***************************************************************************)
\* the deferred file.Close(): it closes the handle the defer statement
\* evaluated, whatever the variable file holds at the return
RunDeferred(hs, h) == [hs EXCEPT ![h] = "closed"]

\* os.Open, defer file.Close(), Seek(0, io.SeekEnd), bufio.NewReader
TailOpen ==
    /\ tailPc = "entry"
    /\ handles' = Append(handles, "open")
    /\ curFile' = Len(handles) + 1
    /\ deferFile' = Len(handles) + 1
    /\ lastSize' = 0
    /\ offset' = Len(file)
    /\ startAt' = Len(file)
    /\ rdBuf' = <<>>
    /\ tailPc' = "select"
    /\ UNCHANGED <<bfVars, lineVars, bufVars, hubVars, fileVars, delivered, cancelled, tailRet, observed, shrinkSeen>>

\* select: case <-ctx.Done(): return nil
TailCancelled ==
    /\ tailPc = "select"
    /\ cancelled
    /\ tailRet' = "nil"
    /\ handles' = RunDeferred(handles, deferFile)
    /\ tailPc' = "done"
    /\ UNCHANGED <<bfVars, lineVars, bufVars, hubVars, fileVars, curFile, deferFile, offset, rdBuf, lastSize,
                   delivered, cancelled, observed, shrinkSeen, startAt>>

\* select: default
TailDefault ==
    /\ tailPc = "select"
    /\ ~cancelled
    /\ tailPc' = "stat"
    /\ UNCHANGED <<bfVars, lineVars, bufVars, hubVars, fileVars, handles, curFile, deferFile, offset, rdBuf,
                   lastSize, delivered, cancelled, tailRet, observed, shrinkSeen, startAt>>

\* what Stat leaves in the history variables
StatSeen ==
    /\ observed' = Len(file)
    /\ shrinkSeen' = (shrinkSeen \/ (observed >= 0 /\ Len(file) < observed))

\* info.Size() < lastSize in the code
ShrinkDetected(size, last) == size < last

\* file.Stat(): the size is not below lastSize.  (Stat is never called on a
\* nil file: after a failed reopen the ReadString that follows returns.)
TailStatSame ==
    /\ tailPc = "stat"
    /\ curFile # 0
    /\ ~ShrinkDetected(Len(file), lastSize)
    /\ StatSeen
    /\ tailPc' = "read"
    /\ UNCHANGED <<bfVars, lineVars, bufVars, hubVars, fileVars, handles, curFile, deferFile, offset, rdBuf,
                   lastSize, delivered, cancelled, tailRet, startAt>>

\* file.Stat(): the size is below lastSize; file.Close(), os.Open succeeds
TailStatReopen ==
    /\ tailPc = "stat"
    /\ curFile # 0
    /\ ShrinkDetected(Len(file), lastSize)
    /\ StatSeen
    /\ handles' = Append([handles EXCEPT ![curFile] = "closed"], "open")
    /\ curFile' = Len(handles) + 1
    /\ offset' = 0
    /\ rdBuf' = <<>>
    /\ lastSize' = 0
    /\ tailPc' = "read"
    /\ UNCHANGED <<bfVars, lineVars, bufVars, hubVars, fileVars, deferFile, delivered, cancelled, tailRet, startAt>>

\* the same, but os.Open fails: its error is dropped and file is nil
TailStatReopenFails ==
    /\ tailPc = "stat"
    /\ curFile # 0
    /\ ShrinkDetected(Len(file), lastSize)
    /\ StatSeen
    /\ handles' = [handles EXCEPT ![curFile] = "closed"]
    /\ curFile' = 0
    /\ offset' = 0
    /\ rdBuf' = <<>>
    /\ lastSize' = 0
    /\ tailPc' = "read"
    /\ UNCHANGED <<bfVars, lineVars, bufVars, hubVars, fileVars, deferFile, delivered, cancelled, tailRet, startAt>>

\* the bytes a Read at offset returns (none at or beyond the end of the file)
Available == IF offset >= Len(file) THEN <<>> ELSE SubSeq(file, offset + 1, Len(file))

\* the buffer after bufio has filled it, when it holds no newline yet
Filled == IF 0 \in Range(rdBuf) THEN rdBuf ELSE rdBuf \o Available

FirstNewline(bytes) == Min({i \in DOMAIN bytes : bytes[i] = 0})

\* reader.ReadString('\n') returns a line; lastSize += len(line);
\* strings.TrimSpace; a blank line is skipped, any other goes to onLog
TailReadLine ==
    /\ tailPc = "read"
    /\ curFile # 0
    /\ 0 \in Range(Filled)
    /\ LET n    == FirstNewline(Filled)
           line == SubSeq(Filled, 1, n)
           text == SubSeq(Filled, 1, n - 1)
       IN  /\ rdBuf' = SubSeq(Filled, n + 1, Len(Filled))
           /\ lastSize' = lastSize + Len(line)
           /\ delivered' = IF text = <<>> THEN delivered ELSE Append(delivered, text)
    /\ offset' = IF 0 \in Range(rdBuf) THEN offset ELSE offset + Len(Available)
    /\ tailPc' = "select"
    /\ UNCHANGED <<bfVars, lineVars, bufVars, hubVars, fileVars, handles, curFile, deferFile, cancelled, tailRet,
                   observed, shrinkSeen, startAt>>

\* ReadString meets the end of the file before a newline: io.EOF, the bytes
\* read so far are returned with it and dropped; time.Sleep(time.Second)
TailReadEOF ==
    /\ tailPc = "read"
    /\ curFile # 0
    /\ 0 \notin Range(Filled)
    /\ rdBuf' = <<>>
    /\ offset' = offset + Len(Available)
    /\ tailPc' = "sleep"
    /\ UNCHANGED <<bfVars, lineVars, bufVars, hubVars, fileVars, handles, curFile, deferFile, lastSize, delivered,
                   cancelled, tailRet, observed, shrinkSeen, startAt>>

\* ReadString fails with another error (an I/O error, or file is nil):
\* return err
TailReadError ==
    /\ tailPc = "read"
    /\ 0 \notin Range(rdBuf)
    /\ tailRet' = "err"
    /\ handles' = RunDeferred(handles, deferFile)
    /\ tailPc' = "done"
    /\ UNCHANGED <<bfVars, lineVars, bufVars, hubVars, fileVars, curFile, deferFile, offset, rdBuf, lastSize,
                   delivered, cancelled, observed, shrinkSeen, startAt>>

\* time.Sleep(time.Second) returns; continue
TailWake ==
    /\ tailPc = "sleep"
    /\ tailPc' = "select"
    /\ UNCHANGED <<bfVars, lineVars, bufVars, hubVars, fileVars, handles, curFile, deferFile, offset, rdBuf,
                   lastSize, delivered, cancelled, tailRet, observed, shrinkSeen, startAt>>

(***************************************************************************)
(* The window buffer of the stream manager (NewStreamManager, Ingest,      *)
(* ShouldFlush, Flush: stream_manager.go), as the design describes it: one *)
(* mutex guards the buffer, and each operation holds it for its body.      *)
(***************************************************************************)
FlushCount == 2     \* the count threshold of ShouldFlush
FlushWindow == 1    \* the window duration of ShouldFlush
BufferCap == 3      \* the capacity ceiling of Ingest

\* the mutex can be taken
CanLockAlways(holder) == TRUE

CanLock(holder) == holder = 0

\* ShouldFlush with the count trigger alone
ShouldFlushCountOnly(buf, last, t) == Len(buf) >= FlushCount

\* ShouldFlush's answer for a buffer, a last flush time and a clock reading
ShouldFlush(buf, last, t) == Len(buf) >= FlushCount \/ t - last > FlushWindow

(***************************************************************************)
(* streamIngestHandler: the requests (Handlers) and, per request, the      *)
(* goroutine running tailFile whose onLog calls Ingest.  (The handler's    *)
(* counter accepted, which only goes into the response, is left out.)      *)
(***************************************************************************)
Handlers == {1, 2}
TailerOf(h) == h + 10
Tailers == {TailerOf(h) : h \in Handlers}
HandlerOf(t) == t - 10

\* for sc.Scan(): one more line of the initial read
HScanLine(h) ==
    /\ pc[h] = "scan"
    /\ hLeft[h] > 0
    /\ hLeft' = [hLeft EXCEPT ![h] = @ - 1]
    /\ pc' = [pc EXCEPT ![h] = "ingest"]
    /\ UNCHANGED <<bfVars, lineVars, fileVars, tailVars, hubVars, lastCheck, smBuffer, smMu, smLastFlush, clock, tLeft, snap, flushed,
                   acceptedRecs, nextRec>>

\* the scan is over: go tailFile(...), then streamMgr.ShouldFlush()
HSpawnTail(h) ==
    /\ pc[h] = "scan"
    /\ hLeft[h] = 0
    /\ pc' = [pc EXCEPT ![h] = "check", ![TailerOf(h)] = "select"]
    /\ UNCHANGED <<bfVars, lineVars, fileVars, tailVars, hubVars, lastCheck, smBuffer, smMu, smLastFlush, clock, hLeft, tLeft, snap, flushed,
                   acceptedRecs, nextRec>>

\* tailFile's select: the request's context is done once the handler returned
TStop(t) ==
    /\ pc[t] = "select"
    /\ pc[HandlerOf(t)] = "done"
    /\ pc' = [pc EXCEPT ![t] = "stopped"]
    /\ UNCHANGED <<bfVars, lineVars, fileVars, tailVars, hubVars, lastCheck, smBuffer, smMu, smLastFlush, clock, hLeft, tLeft, snap, flushed,
                   acceptedRecs, nextRec>>

\* tailFile reads a line and calls onLog
TLine(t) ==
    /\ pc[t] = "select"
    /\ pc[HandlerOf(t)] # "done"
    /\ tLeft[HandlerOf(t)] > 0
    /\ tLeft' = [tLeft EXCEPT ![HandlerOf(t)] = @ - 1]
    /\ pc' = [pc EXCEPT ![t] = "ingest"]
    /\ UNCHANGED <<bfVars, lineVars, fileVars, tailVars, hubVars, lastCheck, smBuffer, smMu, smLastFlush, clock, hLeft, snap, flushed,
                   acceptedRecs, nextRec>>

\* Ingest: take the mutex
IngestLock(p) ==
    /\ pc[p] = "ingest"
    /\ CanLock(smMu)
    /\ smMu' = p
    /\ pc' = [pc EXCEPT ![p] = "ingestIn"]
    /\ UNCHANGED <<bfVars, lineVars, fileVars, tailVars, hubVars, lastCheck, smBuffer, smLastFlush, clock, hLeft, tLeft, snap, flushed,
                   acceptedRecs, nextRec>>

\* Ingest: reject at the capacity ceiling, else append; release the mutex
IngestBody(p) ==
    /\ pc[p] = "ingestIn"
    /\ IF Len(smBuffer) >= BufferCap
       THEN UNCHANGED <<smBuffer, acceptedRecs>>
       ELSE /\ smBuffer' = Append(smBuffer, nextRec)
            /\ acceptedRecs' = acceptedRecs \cup {nextRec}
    /\ nextRec' = nextRec + 1
    /\ smMu' = 0
    /\ pc' = [pc EXCEPT ![p] = IF p \in Handlers THEN "scan" ELSE "select"]
    /\ lastCheck' = <<>>
    /\ UNCHANGED <<bfVars, lineVars, fileVars, tailVars, hubVars, smLastFlush, clock, hLeft, tLeft, snap, flushed>>

\* ShouldFlush: take the mutex
CheckLock(h) ==
    /\ pc[h] = "check"
    /\ CanLock(smMu)
    /\ smMu' = h
    /\ pc' = [pc EXCEPT ![h] = "checkIn"]
    /\ UNCHANGED <<bfVars, lineVars, fileVars, tailVars, hubVars, lastCheck, smBuffer, smLastFlush, clock, hLeft, tLeft, snap, flushed,
                   acceptedRecs, nextRec>>

\* ShouldFlush: answer, release the mutex; if streamMgr.ShouldFlush() { Flush() }
CheckBody(h) ==
    /\ pc[h] = "checkIn"
    /\ smMu' = 0
    /\ pc' = [pc EXCEPT ![h] = IF ShouldFlush(smBuffer, smLastFlush, clock)
                               THEN "flush" ELSE "respond"]
    /\ lastCheck' = <<[answer |-> ShouldFlush(smBuffer, smLastFlush, clock),
                       at |-> clock,
                       calls |-> IF lastCheck = <<>> THEN 1 ELSE lastCheck[1].calls + 1]>>
    /\ UNCHANGED <<bfVars, lineVars, fileVars, tailVars, hubVars, smBuffer, smLastFlush, clock, hLeft, tLeft, snap, flushed,
                   acceptedRecs, nextRec>>

\* Flush: take the mutex
FlushLock(h) ==
    /\ pc[h] = "flush"
    /\ CanLock(smMu)
    /\ smMu' = h
    /\ pc' = [pc EXCEPT ![h] = "flushIn"]
    /\ UNCHANGED <<bfVars, lineVars, fileVars, tailVars, hubVars, lastCheck, smBuffer, smLastFlush, clock, hLeft, tLeft, snap, flushed,
                   acceptedRecs, nextRec>>

\* Flush: take the buffered records
FlushSnapshot(h) ==
    /\ pc[h] = "flushIn"
    /\ snap' = [snap EXCEPT ![h] = smBuffer]
    /\ pc' = [pc EXCEPT ![h] = "flushSnap"]
    /\ UNCHANGED <<bfVars, lineVars, fileVars, tailVars, hubVars, lastCheck, smBuffer, smMu, smLastFlush, clock, hLeft, tLeft, flushed,
                   acceptedRecs, nextRec>>

\* Flush: clear the buffer, reset the timer, release the mutex and return
\* the snapshot (nothing if it is empty)
FlushClear(h) ==
    /\ pc[h] = "flushSnap"
    /\ smBuffer' = <<>>
    /\ smLastFlush' = clock
    /\ smMu' = 0
    /\ flushed' = IF snap[h] = <<>> THEN flushed ELSE Append(flushed, snap[h])
    /\ pc' = [pc EXCEPT ![h] = "respond"]
    /\ lastCheck' = <<>>
    /\ UNCHANGED <<bfVars, lineVars, fileVars, tailVars, hubVars, clock, hLeft, tLeft, snap, acceptedRecs, nextRec>>

\* json.NewEncoder(w).Encode(...) and return: the request's context ends
HRespond(h) ==
    /\ pc[h] = "respond"
    /\ pc' = [pc EXCEPT ![h] = "done"]
    /\ UNCHANGED <<bfVars, lineVars, fileVars, tailVars, hubVars, lastCheck, smBuffer, smMu, smLastFlush, clock, hLeft, tLeft, snap, flushed,
                   acceptedRecs, nextRec>>

\* time passes
Tick ==
    /\ clock < MaxClock
    /\ clock' = clock + 1
    /\ UNCHANGED <<bfVars, lineVars, fileVars, tailVars, hubVars, lastCheck, smBuffer, smMu, smLastFlush, pc, hLeft, tLeft, snap, flushed,
                   acceptedRecs, nextRec>>

(***************************************************************************)
(***************************************************************************)
(* The broadcast hub of the stream manager (Subscribe, Unsubscribe,        *)
(* Publish: stream_manager.go), as the design describes it: a registry of  *)
(* bounded channels behind its own mutex, Publish trying a non-blocking    *)
(* send to each.                                                           *)
(***************************************************************************)
ChanCap == 1        \* the capacity of a subscriber's channel

Clients == {1, 2}
Publisher == 99

\* select { case ch <- bundle: default: } with the channel replaced when full
TrySendReplace(q, b) == IF Len(q) < ChanCap THEN Append(q, b) ELSE Append(Tail(q), b)

\* select { case ch <- bundle: default: }: the queue of the channel afterwards
TrySend(q, b) == IF Len(q) < ChanCap THEN Append(q, b) ELSE q

\* Publish(bundle): take the registry's mutex and start over the subscribers
PubLock ==
    /\ pubPc = "idle"
    /\ pubNext <= MaxBundles
    /\ CanLock(regMu)
    /\ regMu' = Publisher
    /\ pubTodo' = subs
    /\ targeted' = targeted \cup {<<c, pubNext>> : c \in subs}
    /\ pubPc' = "send"
    /\ UNCHANGED <<bfVars, lineVars, fileVars, tailVars, bufVars, subs, chans, pubNext, dropped,
                   cPc, ctxDone, received>>

\* Publish: the non-blocking send to one subscriber
PubSend(c) ==
    /\ pubPc = "send"
    /\ c \in pubTodo
    /\ chans' = [chans EXCEPT ![c] = TrySend(@, pubNext)]
    /\ dropped' = IF Len(chans[c]) < ChanCap THEN dropped
                  ELSE dropped \cup {<<c, pubNext>>}
    /\ pubTodo' = pubTodo \ {c}
    /\ UNCHANGED <<bfVars, lineVars, fileVars, tailVars, bufVars, subs, regMu, pubPc, pubNext,
                   targeted, cPc, ctxDone, received>>

\* Publish: every subscriber tried; release the mutex and return
PubUnlock ==
    /\ pubPc = "send"
    /\ pubTodo = {}
    /\ regMu' = 0
    /\ pubNext' = pubNext + 1
    /\ pubPc' = "idle"
    /\ UNCHANGED <<bfVars, lineVars, fileVars, tailVars, bufVars, subs, chans, pubTodo, targeted,
                   dropped, cPc, ctxDone, received>>

(***************************************************************************)
(* streamLiveHandler                                                       *)
(***************************************************************************)
\* w is no http.Flusher: 500 "stream unsupported", return before Subscribe
ClientUnsupported(c) ==
    /\ cPc[c] = "idle"
    /\ cPc' = [cPc EXCEPT ![c] = "done"]
    /\ UNCHANGED <<bfVars, lineVars, fileVars, tailVars, bufVars, subs, chans, regMu, pubPc,
                   pubTodo, pubNext, targeted, dropped, ctxDone, received>>

\* ch := streamMgr.Subscribe(); defer streamMgr.Unsubscribe(ch)
ClientSubscribe(c) ==
    /\ cPc[c] = "idle"
    /\ CanLock(regMu)
    /\ subs' = subs \cup {c}
    /\ cPc' = [cPc EXCEPT ![c] = "wait"]
    /\ UNCHANGED <<bfVars, lineVars, fileVars, tailVars, bufVars, chans, regMu, pubPc, pubTodo,
                   pubNext, targeted, dropped, ctxDone, received>>

\* the client goes away: the request's context is cancelled
ClientCtxDone(c) ==
    /\ cPc[c] = "wait"
    /\ ~ctxDone[c]
    /\ ctxDone' = [ctxDone EXCEPT ![c] = TRUE]
    /\ UNCHANGED <<bfVars, lineVars, fileVars, tailVars, bufVars, subs, chans, regMu, pubPc,
                   pubTodo, pubNext, targeted, dropped, cPc, received>>

\* select: case bundle := <-ch: write it to the response
ClientRecv(c) ==
    /\ cPc[c] = "wait"
    /\ chans[c] # <<>>
    /\ received' = [received EXCEPT ![c] = Append(@, Head(chans[c]))]
    /\ chans' = [chans EXCEPT ![c] = Tail(@)]
    /\ UNCHANGED <<bfVars, lineVars, fileVars, tailVars, bufVars, subs, regMu, pubPc, pubTodo,
                   pubNext, targeted, dropped, cPc, ctxDone>>

\* ClientReturn with no deferred Unsubscribe: the handler is gone at once
ClientReturnNoUnsubscribe(c) ==
    /\ cPc[c] = "wait"
    /\ ctxDone[c]
    /\ cPc' = [cPc EXCEPT ![c] = "done"]
    /\ UNCHANGED <<bfVars, lineVars, fileVars, tailVars, bufVars, subs, chans, regMu, pubPc,
                   pubTodo, pubNext, targeted, dropped, ctxDone, received>>

\* select: case <-r.Context().Done(): return
ClientReturn(c) ==
    /\ cPc[c] = "wait"
    /\ ctxDone[c]
    /\ cPc' = [cPc EXCEPT ![c] = "unsub"]
    /\ UNCHANGED <<bfVars, lineVars, fileVars, tailVars, bufVars, subs, chans, regMu, pubPc,
                   pubTodo, pubNext, targeted, dropped, ctxDone, received>>

\* the deferred streamMgr.Unsubscribe(ch)
ClientUnsubscribe(c) ==
    /\ cPc[c] = "unsub"
    /\ CanLock(regMu)
    /\ subs' = subs \ {c}
    /\ cPc' = [cPc EXCEPT ![c] = "done"]
    /\ UNCHANGED <<bfVars, lineVars, fileVars, tailVars, bufVars, chans, regMu, pubPc, pubTodo,
                   pubNext, targeted, dropped, ctxDone, received>>

(* Specifications: one per component, the other components at rest.        *)
(***************************************************************************)
\* the batch preprocessor before any call
BatchIdle ==
    /\ bfCall = [op |-> "none", logs |-> <<>>, raw |-> NoRaw]
    /\ bfOut = <<>>

\* tailFile not called, on an empty file
TailIdle ==
    /\ file = <<>> /\ nextLine = 1 /\ truncs = 0
    /\ tailPc = "idle" /\ handles = <<>> /\ curFile = 0 /\ deferFile = 0
    /\ offset = 0 /\ rdBuf = <<>> /\ lastSize = 0 /\ delivered = <<>>
    /\ cancelled = FALSE /\ tailRet = "none" /\ observed = -1 /\ shrinkSeen = FALSE
    /\ startAt = 0

\* the stream manager after NewStreamManager, no request running
BufferIdle ==
    /\ smBuffer = <<>> /\ smMu = 0 /\ smLastFlush = 0 /\ clock = 0
    /\ pc = [p \in Handlers \cup Tailers |-> IF p \in Handlers THEN "scan" ELSE "off"]
    /\ hLeft = [h \in Handlers |-> 0]
    /\ tLeft = [h \in Handlers |-> 0]
    /\ snap = [h \in Handlers |-> <<>>]
    /\ flushed = <<>> /\ acceptedRecs = {} /\ nextRec = 1 /\ lastCheck = <<>>

\* the hub with no subscriber and nothing published
HubIdle ==
    /\ subs = {} /\ regMu = 0 /\ pubPc = "idle" /\ pubTodo = {} /\ pubNext = 1
    /\ chans = [c \in Clients |-> <<>>]
    /\ targeted = {} /\ dropped = {}
    /\ cPc = [c \in Clients |-> "idle"]
    /\ ctxDone = [c \in Clients |-> FALSE]
    /\ received = [c \in Clients |-> <<>>]

\* no free-text line being parsed
LineIdle ==
    /\ lnCall = [op |-> "none", line |-> <<>>, service |-> <<>>]
    /\ lnOut = <<>>

InitBundle ==
    /\ \/ \E n \in 0..MaxLogs : \E l \in [1..n -> LogUniverse] :
             bfCall = [op |-> "CreateBundle", logs |-> l, raw |-> NoRaw]
       \/ bfCall = [op |-> "Process", logs |-> <<>>, raw |-> NoRaw]
       \/ \E n \in 0..MaxRaw : \E s \in [1..n -> RawUniverse] :
             bfCall = [op |-> "Process", logs |-> <<>>,
                       raw |-> [isNil |-> FALSE, items |-> s]]
    /\ bfOut = <<>>
    /\ TailIdle /\ BufferIdle /\ HubIdle /\ LineIdle

InitMine ==
    /\ \E n \in 0..MaxMine : \E l \in [1..n -> MineUniverse] :
          bfCall = [op |-> "MinePatterns", logs |-> l, raw |-> NoRaw]
    /\ bfOut = <<>>
    /\ TailIdle /\ BufferIdle /\ HubIdle /\ LineIdle

NextBundle == CallCreateBundle \/ CallProcess
NextMine   == CallMinePatterns

SpecBundle == InitBundle /\ [][NextBundle]_vars
SpecMine   == InitMine /\ [][NextMine]_vars

InitParse ==
    /\ \/ bfCall = [op |-> "ParseLogs", logs |-> <<>>, raw |-> NoRaw]
       \/ \E n \in 0..MaxEntries : \E s \in [1..n -> RawUniverse] :
             bfCall = [op |-> "ParseLogs", logs |-> <<>>,
                       raw |-> [isNil |-> FALSE, items |-> s]]
    /\ bfOut = <<>>
    /\ TailIdle /\ BufferIdle /\ HubIdle /\ LineIdle

NextParse == CallParseLogs

SpecParse == InitParse /\ [][NextParse]_vars

InitLine ==
    /\ \E n \in 0..MaxWords : \E ws \in [1..n -> LineWords] :
          \/ lnCall = [op |-> "parseLine", line |-> Concat(ws), service |-> SvcA]
          \/ lnCall = [op |-> "formatLogLine", line |-> Concat(ws), service |-> <<>>]
    /\ lnOut = <<>>
    /\ BatchIdle /\ TailIdle /\ BufferIdle /\ HubIdle

NextLine == CallParseLine \/ CallFormatLogLine

SpecLine == InitLine /\ [][NextLine]_vars

InitTail ==
    /\ BatchIdle /\ BufferIdle /\ HubIdle /\ LineIdle
    /\ \E n \in 0..MaxInit : file = InitialFile(n) /\ nextLine = MaxInit + 1
    /\ truncs = 0
    /\ tailPc = "entry" /\ handles = <<>> /\ curFile = 0 /\ deferFile = 0
    /\ offset = 0 /\ rdBuf = <<>> /\ lastSize = 0 /\ delivered = <<>>
    /\ cancelled = FALSE /\ tailRet = "none" /\ observed = -1 /\ shrinkSeen = FALSE
    /\ startAt = 0

NextTail ==
    \/ WriteLine \/ WritePart \/ WriteRest \/ Truncate \/ Cancel
    \/ TailOpen \/ TailCancelled \/ TailDefault
    \/ TailStatSame \/ TailStatReopen \/ TailStatReopenFails
    \/ TailReadLine \/ TailReadEOF \/ TailReadError
    \/ TailWake

SpecTail == InitTail /\ [][NextTail]_vars

InitBuffer ==
    /\ BatchIdle /\ TailIdle /\ HubIdle /\ LineIdle
    /\ smBuffer = <<>> /\ smMu = 0 /\ smLastFlush = 0 /\ clock = 0
    /\ pc = [p \in Handlers \cup Tailers |-> IF p \in Handlers THEN "scan" ELSE "off"]
    /\ hLeft \in [Handlers -> 0..MaxBatch]
    /\ tLeft \in [Handlers -> 0..MaxTailed]
    /\ snap = [h \in Handlers |-> <<>>]
    /\ flushed = <<>> /\ acceptedRecs = {} /\ nextRec = 1 /\ lastCheck = <<>>

NextBuffer ==
    \/ \E h \in Handlers :
          \/ HScanLine(h) \/ HSpawnTail(h)
          \/ CheckLock(h) \/ CheckBody(h)
          \/ FlushLock(h) \/ FlushSnapshot(h) \/ FlushClear(h)
          \/ HRespond(h)
    \/ \E t \in Tailers : TStop(t) \/ TLine(t)
    \/ \E p \in Handlers \cup Tailers : IngestLock(p) \/ IngestBody(p)
    \/ Tick

SpecBuffer == InitBuffer /\ [][NextBuffer]_vars

InitHub == BatchIdle /\ TailIdle /\ BufferIdle /\ HubIdle /\ LineIdle

NextHub ==
    \/ PubLock \/ PubUnlock
    \/ \E c \in Clients :
          \/ PubSend(c)
          \/ ClientUnsupported(c) \/ ClientSubscribe(c) \/ ClientCtxDone(c)
          \/ ClientRecv(c) \/ ClientReturn(c) \/ ClientUnsubscribe(c)

SpecHub == InitHub /\ [][NextHub]_vars

\* The scheduler runs every goroutine that can take a step: a handler whose
\* select has a ready case, a deferred call, Publish inside its loop.
FairHub ==
    /\ WF_vars(PubUnlock)
    /\ \A c \in Clients :
          /\ WF_vars(PubSend(c))
          /\ WF_vars(ClientReturn(c))
          /\ WF_vars(ClientUnsubscribe(c))

SpecHubFair == InitHub /\ [][NextHub]_vars /\ FairHub

(***************************************************************************)
(* Reference notions the properties are stated with.                       *)
(***************************************************************************)
LexMin(S) == CHOOSE x \in S : \A y \in S : ~StrLess(y, x)
LexMax(S) == CHOOSE x \in S : \A y \in S : ~StrLess(x, y)

\* Sorting by timestamp that keeps records of equal timestamp in their
\* order of arrival.
RECURSIVE StableSort(_)
StableSort(s) ==
    IF s = <<>> THEN <<>>
    ELSE LET front == StableSort(SubSeq(s, 1, Len(s) - 1))
             r     == s[Len(s)]
             k     == Cardinality({i \in DOMAIN front :
                                      ~StrLess(r.Timestamp, front[i].Timestamp)})
         IN  SubSeq(front, 1, k) \o <<r>> \o SubSeq(front, k + 1, Len(front))

BundleOps == {"CreateBundle", "Process"}

\* the call has returned
Returned == bfOut # <<>>

\* the call has returned a bundle
HasBundle ==
    /\ Returned
    /\ bfCall.op \in BundleOps
    /\ bfOut[1].ret.bundle # <<>>

Bundle == bfOut[1].ret.bundle[1]

\* the records the bundle is built from, in arrival order
InputRecords ==
    IF bfCall.op = "Process" THEN ParseLoop(bfCall.raw, bfOut[1].nows) ELSE bfCall.logs

InputCount ==
    IF bfCall.op = "Process" THEN Len(bfCall.raw.items) ELSE Len(bfCall.logs)

(***************************************************************************)
(* C6: for every non-empty record sequence given to CreateBundle (directly *)
(* or through Process), windowStart <= windowEnd, windowStart is the       *)
(* minimum and windowEnd the maximum record timestamp of the input.        *)
(***************************************************************************)
C6_WindowBounds ==
    HasBundle /\ InputRecords # <<>> =>
        LET ts == {InputRecords[i].Timestamp : i \in DOMAIN InputRecords}
        IN  /\ ~StrLess(Bundle.WindowEnd, Bundle.WindowStart)
            /\ Bundle.WindowStart = LexMin(ts)
            /\ Bundle.WindowEnd = LexMax(ts)

(***************************************************************************)
(* C7: a bundle's sequence has exactly one entry per input record, ordered *)
(* by timestamp ascending, records of equal timestamp in arrival order,    *)
(* each entry's index its 0-based position.                                *)
(***************************************************************************)
C7_SequenceStablySorted ==
    HasBundle =>
        LET sorted == StableSort(InputRecords)
        IN  /\ Len(Bundle.Sequence) = Len(InputRecords)
            /\ \A i \in DOMAIN Bundle.Sequence :
                  /\ Bundle.Sequence[i].Timestamp = sorted[i].Timestamp
                  /\ Bundle.Sequence[i].Message =
                        <<"[">> \o sorted[i].Service \o <<"]", " ">> \o sorted[i].Message
                  /\ Bundle.Sequence[i].SequenceIndex = i - 1

(***************************************************************************)
(* C8: building a bundle from an empty record sequence fails with an error *)
(* and returns no bundle, for CreateBundle and for Process (also for an    *)
(* empty, non-nil collection of raw entries).                              *)
(***************************************************************************)
C8_EmptyInputFails ==
    Returned /\ bfCall.op \in BundleOps =>
        /\ InputCount = 0 => bfOut[1].ret.err /\ bfOut[1].ret.bundle = <<>>
        /\ bfOut[1].ret.bundle # <<>> => InputCount > 0 /\ ~bfOut[1].ret.err

\* Process has returned for an empty, non-nil collection, with the error
C8_Witness ==
    /\ Returned
    /\ bfCall.op = "Process"
    /\ ~bfCall.raw.isNil
    /\ bfCall.raw.items = <<>>
    /\ bfOut[1].ret.err

(***************************************************************************)
(* C9: rootService is the service of the first record, in timestamp-sorted *)
(* order, whose level is ERROR, FATAL or CRITICAL, and is absent exactly   *)
(* when no record has one of these levels.                                 *)
(***************************************************************************)
C9_RootServiceFirstError ==
    HasBundle =>
        LET sorted == StableSort(InputRecords)
            hits   == {i \in DOMAIN sorted : sorted[i].Level \in {"ERROR", "FATAL", "CRITICAL"}}
        IN  /\ (Bundle.RootService = <<>>) <=> (hits = {})
            /\ hits # {} => Bundle.RootService = <<sorted[Min(hits)].Service>>

(***************************************************************************)
(* C10: MinePatterns returns exactly one pattern per distinct message,     *)
(* with count the number of records with that message, firstOccurrence the *)
(* lexicographic minimum and lastOccurrence the lexicographic maximum of   *)
(* their timestamps, whatever the order of the input records.              *)
(***************************************************************************)
\* what the claim says the patterns of logs are, as a set
ExpectedPatterns(logs) ==
    {[Pattern |-> m,
      Count |-> Cardinality({i \in DOMAIN logs : logs[i].Message = m}),
      FirstOccurrence |-> LexMin({logs[i].Timestamp : i \in {j \in DOMAIN logs : logs[j].Message = m}}),
      LastOccurrence |-> LexMax({logs[i].Timestamp : i \in {j \in DOMAIN logs : logs[j].Message = m}})] :
        m \in {logs[i].Message : i \in DOMAIN logs}}

PatternFacts(ps) ==
    {[Pattern |-> ps[i].Pattern, Count |-> ps[i].Count,
      FirstOccurrence |-> ps[i].FirstOccurrence,
      LastOccurrence |-> ps[i].LastOccurrence] : i \in DOMAIN ps}

C10_PatternsPerMessage ==
    Returned /\ bfCall.op = "MinePatterns" =>
        LET ps   == bfOut[1].ret
            logs == bfCall.logs
        IN  /\ Len(ps) = Cardinality({logs[i].Message : i \in DOMAIN logs})
            /\ \A i, j \in DOMAIN ps : ps[i].Pattern = ps[j].Pattern => i = j
            /\ PatternFacts(ps) = ExpectedPatterns(logs)
            /\ \A p \in Perms(Len(logs)) :
                  \A qs \in MinePatterns([i \in DOMAIN logs |-> logs[p[i]]]) :
                      PatternFacts(qs) = PatternFacts(ps)

\* three records mined, two of them with one message, the later one first
C10_Witness ==
    /\ Returned
    /\ bfCall.op = "MinePatterns"
    /\ Len(bfCall.logs) = 3
    /\ bfCall.logs[1].Message = bfCall.logs[3].Message
    /\ bfCall.logs[2].Message # bfCall.logs[1].Message
    /\ StrLess(bfCall.logs[3].Timestamp, bfCall.logs[1].Timestamp)
    /\ \E i \in DOMAIN bfOut[1].ret :
          /\ bfOut[1].ret[i].Count = 2
          /\ bfOut[1].ret[i].FirstOccurrence = bfCall.logs[3].Timestamp


(***************************************************************************)
(* C3: when the tailed file shrinks between two polls, tailFile resumes    *)
(* from offset zero of the new content: once a poll has seen the file      *)
(* smaller than the poll before, a read that reaches the end of the file   *)
(* has delivered every line of the new content to onLog, and no line is    *)
(* ever delivered twice; for every initial size of the file and every      *)
(* amount read before the shrink.                                          *)
(***************************************************************************)
DeliveredIds(d) == {d[i][1] : i \in DOMAIN d}

NoDuplicates(d) == \A i, j \in DOMAIN d : d[i] = d[j] => i = j

C3_ShrinkResumesFromZero ==
    [][/\ (tailPc = "read" /\ tailPc' = "sleep" /\ shrinkSeen)
              => LinesIn(file') \subseteq DeliveredIds(delivered')
       /\ NoDuplicates(delivered')]_vars

(***************************************************************************)
(* C4: on every exit path of tailFile (cancellation, a read error other    *)
(* than end-of-file, also after rotation reopens) every file handle it has *)
(* opened is closed when it returns.                                       *)
(***************************************************************************)
C4_NoHandleLeak ==
    tailPc = "done" => \A h \in DOMAIN handles : handles[h] = "closed"


(***************************************************************************)
(* C1: under any interleaving of Ingest calls from several producers and   *)
(* Flush calls, every accepted record is returned by exactly one Flush: no *)
(* record is returned twice, none is both returned and still buffered,     *)
(* none disappears without being returned, and the record sets of          *)
(* different flushes are disjoint.                                         *)
(***************************************************************************)
FlushedRecs == UNION {Range(flushed[i]) : i \in DOMAIN flushed}

C1_FlushedExactlyOnce ==
    /\ \A i \in DOMAIN flushed : NoDuplicates(flushed[i])
    /\ \A i, j \in DOMAIN flushed :
          i # j => Range(flushed[i]) \cap Range(flushed[j]) = {}
    /\ \A i \in DOMAIN flushed : Range(flushed[i]) \cap Range(smBuffer) = {}
    /\ NoDuplicates(smBuffer)
    /\ acceptedRecs = Range(smBuffer) \cup FlushedRecs

\* two flushes have returned records, and the buffer holds records accepted
\* after them: the next window
C1_Witness ==
    /\ Len(flushed) = 2
    /\ smBuffer # <<>>
    /\ \A r \in Range(smBuffer) : \A q \in FlushedRecs : q < r

(***************************************************************************)
(* C2: Publish never blocks the publisher.  Each subscriber of the moment  *)
(* whose bounded channel has room gets the bundle exactly once; a          *)
(* subscriber whose channel is full has that bundle alone dropped, for it  *)
(* alone: what it had queued is kept and the other subscribers' channels   *)
(* are untouched by the send.                                              *)
(***************************************************************************)
Count(q, b) == Cardinality({i \in DOMAIN q : q[i] = b})

\* the bundles client c has been handed: written out or still queued
Handed(c) == received[c] \o chans[c]

\* Publish(b) has finished its try for subscriber c
Tried(c, b) == b < pubNext \/ (b = pubNext /\ pubPc = "send" /\ c \notin pubTodo)

C2_PublishNeverBlocks ==
    /\ [](\A c \in Clients : \A b \in 1..MaxBundles :
            /\ Count(Handed(c), b) <= 1
            /\ Len(chans[c]) <= ChanCap
            /\ (<<c, b>> \in targeted /\ Tried(c, b))
                 => ((Count(Handed(c), b) = 1) # (<<c, b>> \in dropped))
            /\ <<c, b>> \notin targeted => Count(Handed(c), b) = 0)
    /\ [](pubPc = "send" => \A c \in pubTodo : ENABLED PubSend(c))
    /\ [][\A c \in Clients :
            (pubPc = "send" /\ c \in pubTodo /\ c \notin pubTodo')
              => /\ IF Len(chans[c]) < ChanCap
                    THEN chans'[c] = Append(chans[c], pubNext)
                         /\ <<c, pubNext>> \notin dropped'
                    ELSE chans'[c] = chans[c]
                         /\ <<c, pubNext>> \in dropped'
                 /\ \A d \in Clients \ {c} : chans'[d] = chans[d]
                 /\ dropped' \ dropped \subseteq {<<c, pubNext>>}]_vars

\* one bundle published to two subscribers: the one with a full channel
\* keeps its older bundle and misses this one, the other is handed it
C2_Witness ==
    /\ pubPc = "idle"
    /\ \E b \in 1..MaxBundles : \E c, d \in Clients :
          /\ c # d
          /\ <<c, b>> \in dropped
          /\ <<d, b>> \in targeted
          /\ Count(Handed(d), b) = 1
          /\ Len(chans[c]) = ChanCap
          /\ Head(chans[c]) < b

(***************************************************************************)
(* C5: once cancellation is raised each long-running loop exits without    *)
(* completing its current wait: tailFile's end-of-file wait is not run to  *)
(* its end, and a subscriber's read loop that leaves its wait leaves the   *)
(* handler.                                                                *)
(***************************************************************************)
C5_CancelInterruptsWait ==
    [][/\ (cancelled /\ tailPc = "sleep") => tailPc' \in {"sleep", "done"}
       /\ \A c \in Clients :
            (ctxDone[c] /\ cPc[c] = "wait" /\ cPc'[c] # "wait")
              => cPc'[c] = "unsub"]_vars

(***************************************************************************)
(* C11: pattern mining is associative over concatenation: for every split  *)
(* of a record sequence into consecutive parts, the count the whole        *)
(* sequence's mining gives a message is the sum of the counts that mining  *)
(* each part separately gives it.                                          *)
(***************************************************************************)
\* the count a patternMap holds for message m
CountIn(patternMap, m) ==
    IF m \in DOMAIN patternMap THEN patternMap[m].Count ELSE 0

\* the count the returned patterns hold for message m
CountOf(ps, m) ==
    IF \E i \in DOMAIN ps : ps[i].Pattern = m
    THEN ps[CHOOSE i \in DOMAIN ps : ps[i].Pattern = m].Count
    ELSE 0

\* logs cut after the positions in cuts; each part from position from + 1 on
\* mined on its own, and the counts of m summed
RECURSIVE MergedCount(_, _, _, _)
MergedCount(logs, cuts, from, m) ==
    IF from >= Len(logs) THEN 0
    ELSE LET to == Min({c \in cuts \cup {Len(logs)} : c > from})
         IN  CountIn(MineLoop(SubSeq(logs, from + 1, to), EmptyMap), m)
               + MergedCount(logs, cuts, to, m)

C11_MiningAssociative ==
    Returned /\ bfCall.op = "MinePatterns" =>
        LET ps   == bfOut[1].ret
            logs == bfCall.logs
        IN  \A cuts \in SUBSET (1..(Len(logs) - 1)) :
               \A m \in {MsgDb, MsgTimeout} :
                  CountOf(ps, m) = MergedCount(logs, cuts, 0, m)

\* three records mined, the first two with one message and the third with
\* another, so that a cut after the first record separates equal messages
C11_Witness ==
    /\ Returned
    /\ bfCall.op = "MinePatterns"
    /\ Len(bfCall.logs) = 3
    /\ bfCall.logs[1].Message = bfCall.logs[2].Message
    /\ bfCall.logs[3].Message # bfCall.logs[1].Message
    /\ CountOf(bfOut[1].ret, bfCall.logs[1].Message) = 2
    /\ CountOf(bfOut[1].ret, bfCall.logs[3].Message) = 1

(***************************************************************************)
(* C12: normalization never fails on a raw entry and yields exactly one    *)
(* record per raw entry: a timestamp, level or service that is missing,    *)
(* empty or not a string is replaced by its default (the ingestion time,   *)
(* "INFO", "unknown"), a present non-empty string is kept unchanged, and   *)
(* ParseLogs returns as many records as its input has entries.             *)
(***************************************************************************)
\* the value is present, a string, and not the empty string
Present(x, empty) == x.k = "string" /\ x.s # empty

\* record rec is what the defaults make of entry, read at time now
Normalized(rec, entry, now) ==
    /\ rec.Timestamp = IF Present(entry.timestamp, <<>>) THEN entry.timestamp.s ELSE now
    /\ rec.Level = IF Present(entry.level, "") THEN entry.level.s ELSE "INFO"
    /\ rec.Service = IF Present(entry.service, <<>>) THEN entry.service.s ELSE Unknown

C12_NormalizationDefaults ==
    (Returned /\ bfCall.op = "ParseLogs" /\ ~bfCall.raw.isNil) =>
        LET items == bfCall.raw.items
            out   == bfOut[1].ret
        IN  /\ ~out.err
            /\ Len(out.logs) = Len(items)
            /\ \E p \in Perms(Len(items)) :
                  \A i \in DOMAIN items :
                      Normalized(out.logs[p[i]], items[i], bfOut[1].nows[i])

\* ParseLogs has returned for entries among which one has a timestamp that
\* is not a string, one has empty strings and one has every field present
C12_Witness ==
    /\ Returned
    /\ bfCall.op = "ParseLogs"
    /\ \E i, j, k \in DOMAIN bfCall.raw.items :
          /\ bfCall.raw.items[i].timestamp.k = "other"
          /\ bfCall.raw.items[j].level = Str("")
          /\ bfCall.raw.items[j].service = Str(<<>>)
          /\ Present(bfCall.raw.items[k].timestamp, <<>>)
          /\ Present(bfCall.raw.items[k].service, <<>>)
    /\ Len(bfOut[1].ret.logs) = 3
    /\ \E i \in DOMAIN bfOut[1].ret.logs : bfOut[1].ret.logs[i].Service = Unknown

(***************************************************************************)
(* C13: for every free-text line the inferred level is the first token, in *)
(* the priority order ERROR, WARN, INFO, DEBUG, that occurs as a substring *)
(* of the line (a line with both INFO and DEBUG gets INFO), and INFO when  *)
(* none of the four occurs.                                                *)
(***************************************************************************)
\* the level the priority order gives a line
PriorityLevel(line) ==
    IF Contains(line, TokenOf["ERROR"]) THEN "ERROR"
    ELSE IF Contains(line, TokenOf["WARN"]) THEN "WARN"
    ELSE IF Contains(line, TokenOf["INFO"]) THEN "INFO"
    ELSE IF Contains(line, TokenOf["DEBUG"]) THEN "DEBUG"
    ELSE "INFO"

C13_LevelPriority ==
    lnOut # <<>> =>
        /\ lnCall.op = "parseLine" => lnOut[1].Level = PriorityLevel(lnCall.line)
        /\ lnCall.op = "formatLogLine" =>
              lnOut[1].severity = <<PriorityLevel(lnCall.line)>>

(***************************************************************************)
(* C14: metrics.errorRateZ is 5.0 if at least one record of the window has *)
(* level exactly ERROR and 0.0 otherwise; FATAL and CRITICAL records alone *)
(* leave it at 0.0.                                                        *)
(***************************************************************************)
C14_ErrorRateZ ==
    HasBundle =>
        /\ (\E i \in DOMAIN InputRecords : InputRecords[i].Level = "ERROR")
              => Bundle.Metrics.ErrorRateZ = 5
        /\ (\A i \in DOMAIN InputRecords : InputRecords[i].Level # "ERROR")
              => Bundle.Metrics.ErrorRateZ = 0

\* a bundle of records among which one is FATAL or CRITICAL and none is
\* ERROR: errorRateZ is 0.0
C14_Witness ==
    /\ HasBundle
    /\ \E i \in DOMAIN InputRecords : InputRecords[i].Level \in {"FATAL", "CRITICAL"}
    /\ \A i \in DOMAIN InputRecords : InputRecords[i].Level # "ERROR"
    /\ Bundle.Metrics.ErrorRateZ = 0

(***************************************************************************)
(* C15: in every bundle affectedServices contains each service value of    *)
(* the input records exactly once and nothing else, and dependencyGraph is *)
(* identical to affectedServices.                                          *)
(***************************************************************************)
C15_AffectedServices ==
    HasBundle =>
        LET services == {InputRecords[i].Service : i \in DOMAIN InputRecords}
        IN  /\ Range(Bundle.AffectedServices) = services
            /\ NoDuplicates(Bundle.AffectedServices)
            /\ Bundle.DependencyGraph = Bundle.AffectedServices

\* a bundle of three records of two services
C15_Witness ==
    /\ HasBundle
    /\ Len(InputRecords) = 3
    /\ InputRecords[1].Service = InputRecords[3].Service
    /\ InputRecords[2].Service # InputRecords[1].Service
    /\ Len(Bundle.AffectedServices) = 2

(***************************************************************************)
(* C19: in every bundle returned by CreateBundle, errorRateZ = 5.0 implies *)
(* that rootService is present and derivedRootCauseHint is "Issue detected *)
(* in " followed by rootService; and derivedRootCauseHint is "Unknown      *)
(* issue" exactly when rootService is absent.                              *)
(***************************************************************************)
C19_HintFollowsRootService ==
    HasBundle =>
        /\ Bundle.Metrics.ErrorRateZ = 5 =>
              /\ Bundle.RootService # <<>>
              /\ Bundle.DerivedRootCauseHint
                   = <<"Issue detected in ">> \o Bundle.RootService[1]
        /\ Bundle.RootService # <<>> =>
              Bundle.DerivedRootCauseHint
                   = <<"Issue detected in ">> \o Bundle.RootService[1]
        /\ (Bundle.DerivedRootCauseHint = <<"Unknown issue">>)
              <=> (Bundle.RootService = <<>>)

\* a bundle with errorRateZ 5.0 whose rootService comes from a FATAL or
\* CRITICAL record that precedes the ERROR record
C19_Witness ==
    /\ HasBundle
    /\ Bundle.Metrics.ErrorRateZ = 5
    /\ Bundle.RootService # <<>>
    /\ \E j \in DOMAIN InputRecords :
          /\ InputRecords[j].Level \in {"FATAL", "CRITICAL"}
          /\ InputRecords[j].Service = Bundle.RootService[1]
          /\ \A k \in DOMAIN InputRecords :
                InputRecords[k].Level = "ERROR" => InputRecords[k].Service # Bundle.RootService[1]

(***************************************************************************)
(* C16: calling ShouldFlush repeatedly with no intervening Ingest or Flush *)
(* returns the same answer every time, where ShouldFlush is true exactly   *)
(* when the buffered count has reached the configured threshold or the     *)
(* time since the last flush exceeds the configured window duration.       *)
(***************************************************************************)
\* this step is ShouldFlush returning to handler h
Answers(h) == pc[h] = "checkIn" /\ pc'[h] # "checkIn"

\* what ShouldFlush returns to h in this step
Answer(h) == pc'[h] = "flush"

\* the triggers, at the time of the call
Triggered ==
    Len(smBuffer) >= FlushCount \/ clock - smLastFlush > FlushWindow

C16_ShouldFlushIdempotent ==
    [][\A h \in Handlers :
          Answers(h) =>
             /\ Answer(h) <=> Triggered
             /\ lastCheck # <<>> => Answer(h) = lastCheck[1].answer]_vars

\* C16 as it holds: ShouldFlush changes nothing, so that with no Ingest or
\* Flush in between two calls at the same clock reading agree, and a later
\* call can differ from an earlier one only by turning true when the window
\* duration has run out in between.
C16_ShouldFlushIdempotentInTime ==
    [][\A h \in Handlers :
          Answers(h) =>
             /\ Answer(h) <=> Triggered
             /\ UNCHANGED <<smBuffer, smLastFlush, clock>>
             /\ lastCheck # <<>> =>
                   /\ lastCheck[1].at = clock => Answer(h) = lastCheck[1].answer
                   /\ lastCheck[1].answer => Answer(h)
                   /\ (Answer(h) /\ ~lastCheck[1].answer)
                        => (lastCheck[1].at < clock
                            /\ clock - smLastFlush > FlushWindow)]_vars

\* ShouldFlush has answered twice with nothing ingested or flushed in
\* between, the second time true because the window had run out
C16_Witness ==
    /\ lastCheck # <<>>
    /\ lastCheck[1].calls = 2
    /\ lastCheck[1].answer
    /\ Len(smBuffer) < FlushCount
    /\ clock - smLastFlush > FlushWindow

(***************************************************************************)
(* C17: a subscription lives exactly as long as its client connection:     *)
(* every channel obtained by Subscribe in the live-stream handler is       *)
(* removed by Unsubscribe on every way the handler returns, so the         *)
(* registry holds only the channels of clients whose handler still runs,   *)
(* and a client that has gone is removed from it.                          *)
(***************************************************************************)
C17_SubscriptionLifetime ==
    /\ [](\A c \in Clients :
             /\ cPc[c] = "done" => c \notin subs
             /\ cPc[c] = "wait" => c \in subs
             /\ c \in subs => cPc[c] \in {"wait", "unsub"})
    /\ \A c \in Clients : (ctxDone[c] ~> (cPc[c] = "done" /\ c \notin subs))

\* one client was subscribed, has received a bundle, went away and its
\* handler has returned; the other is still subscribed
C17_Witness ==
    \E c, d \in Clients :
       /\ cPc[c] = "done" /\ ctxDone[c] /\ received[c] # <<>>
       /\ cPc[d] = "wait" /\ ~ctxDone[d]
       /\ subs = {d}

(***************************************************************************)
(* C18: while tailFile runs without rotation, every non-blank line         *)
(* appended to the file after tailing started is delivered to onLog        *)
(* exactly once and in file order, also when the writer appends a line in  *)
(* two parts so that a poll reaches end-of-file in the middle of the line. *)
(***************************************************************************)
\* the texts of the complete lines in a sequence of bytes, in order
RECURSIVE LinesFrom(_)
LinesFrom(bytes) ==
    IF Len(bytes) < 2 THEN <<>>
    ELSE IF bytes[1] # 0 /\ bytes[2] = 0
         THEN << <<bytes[1]>> >> \o LinesFrom(SubSeq(bytes, 3, Len(bytes)))
         ELSE LinesFrom(Tail(bytes))

\* the lines appended since tailFile sought to the end of the file
AppendedLines == LinesFrom(SubSeq(file, startAt + 1, Len(file)))

\* whenever a poll has read up to the end of a file that was never
\* truncated, what onLog has received is the lines appended, in file order
C18_AppendedLinesDelivered ==
    [][(tailPc = "read" /\ tailPc' = "sleep" /\ truncs = 0)
          => delivered' = AppendedLines']_vars

====
